---- MODULE Spec2Model ----
(***************************************************************************)
(* Model of scripts/03_build_cases_from_repo.py: the class-block extractor *)
(* extract_class_block and the batch loop of main that calls it.           *)
(*                                                                         *)
(* Text is a sequence of one-character strings; a line terminator is the   *)
(* character "\n".  Python's None is modelled by the integer None == -1,   *)
(* which is not a line index.                                              *)
(***************************************************************************)
EXTENDS Integers, Sequences, FiniteSets, TLC

VARIABLES
    text, start_line, class_name, \* arguments of the extractor call
    loc_limit,                    \* its loc_limit; in main, args.loc_limit
    pc,                           \* "call", "returned"; "main" in the batch
    result,                       \* what the call returned
    row,                          \* main: the row r of the current iteration
    n_read,                       \* main: rows taken from df.iterrows()
    fout,                         \* main: the records written to cases.jsonl
    calls,                        \* main: the extractor calls made so far
    n_written,                    \* main: the counter of the same name
    status,                       \* main: "loop", "done", "error"
    frame,                        \* the locals of a call run step by step
    run                           \* the state of a model batch runner

vars == <<text, start_line, class_name, loc_limit, pc, result,
          row, n_read, fout, calls, n_written, status, frame, run>>

callVars == <<text, start_line, class_name, pc, result, frame>>
mainVars == <<row, n_read, fout, calls, n_written, status, run>>

None == 0 - 1

Min(a, b) == IF a < b THEN a ELSE b
Max(a, b) == IF a > b THEN a ELSE b

NL == "\n"

(***************************************************************************)
(* Character classes of Python's re for str patterns.                      *)
(***************************************************************************)
WordChars ==
    {"a","b","c","d","e","f","g","h","i","j","k","l","m","n","o","p","q","r",
     "s","t","u","v","w","x","y","z",
     "A","B","C","D","E","F","G","H","I","J","K","L","M","N","O","P","Q","R",
     "S","T","U","V","W","X","Y","Z",
     "0","1","2","3","4","5","6","7","8","9","_"}

SpaceChars == {" ", "\t", "\n", "\r", "\f"}

(***************************************************************************)
(* str.splitlines(): the text is cut at every line terminator; the         *)
(* terminators are dropped and a final terminator opens no further line.   *)
(* SplitFrom(t, i) is the lines of t from position i on: a terminator      *)
(* closes a line even when it is empty, the end of the text closes it only *)
(* when it is not.  Of Python's line terminators only "\n" occurs in the   *)
(* modelled texts.                                                         *)
(***************************************************************************)
RECURSIVE SplitFrom(_, _)
SplitFrom(t, i) ==
    IF i > Len(t) THEN <<>>
    ELSE LET ends == {j \in i..Len(t) : t[j] = NL}
         IN  IF ends = {} THEN <<SubSeq(t, i, Len(t))>>
             ELSE LET e == CHOOSE j \in ends : \A k \in ends : j <= k
                  IN  <<SubSeq(t, i, e - 1)>> \o SplitFrom(t, e + 1)

splitlines(t) == SplitFrom(t, 1)

(***************************************************************************)
(* "\n".join(ls)                                                           *)
(***************************************************************************)
RECURSIVE JoinFrom(_, _, _)
JoinFrom(ls, i, acc) ==
    IF i > Len(ls) THEN acc
    ELSE JoinFrom(ls, i + 1, IF i = 1 THEN ls[i] ELSE acc \o <<NL>> \o ls[i])

join(ls) == JoinFrom(ls, 1, <<>>)

(***************************************************************************)
(* Python slice s[lo:hi] for 0 <= lo, over 0-based indices.                *)
(***************************************************************************)
Slice(s, lo, hi) == SubSeq(s, lo + 1, Min(hi, Len(s)))

(***************************************************************************)
(* class_name.split(".")[-1]: the characters after the last "." (the whole *)
(* name when it has no ".").                                               *)
(***************************************************************************)
LastDot(name) ==
    LET dots == {i \in 1..Len(name) : name[i] = "."}
    IN  IF dots = {} THEN 0 ELSE CHOOSE i \in dots : \A j \in dots : j <= i

\* variant: the first segment, class_name.split(".")[0]
simple_name_first(name) ==
    LET dots == {i \in 1..Len(name) : name[i] = "."}
    IN  IF dots = {} THEN name
        ELSE SubSeq(name, 1, (CHOOSE i \in dots : \A j \in dots : i <= j) - 1)

simple_name(name) == SubSeq(name, LastDot(name) + 1, Len(name))

(***************************************************************************)
(* header_pat = \b(class|interface|enum)\s+<escaped simple name>\b,        *)
(* applied with search(): a match may start at any position of the line.   *)
(***************************************************************************)
Keywords ==
    { <<"c","l","a","s","s">>,
      <<"i","n","t","e","r","f","a","c","e">>,
      <<"e","n","u","m">> }

IsWord(line, p) == p >= 1 /\ p <= Len(line) /\ line[p] \in WordChars

\* \b between positions p-1 and p
WordBoundary(line, p) == IsWord(line, p - 1) # IsWord(line, p)

\* the literal lit occupies positions p .. p+Len(lit)-1
HasAt(line, p, lit) ==
    /\ p + Len(lit) - 1 <= Len(line)
    /\ \A j \in 1..Len(lit) : line[p + j - 1] = lit[j]

header_pat(line, name) ==
    \E p \in 1..Len(line) :
        /\ WordBoundary(line, p)
        /\ \E kw \in Keywords :
            /\ HasAt(line, p, kw)
            /\ \E k \in 1..(Len(line) - p - Len(kw) + 1) :
                /\ \A j \in 0..(k - 1) : line[p + Len(kw) + j] \in SpaceChars
                /\ HasAt(line, p + Len(kw) + k, name)
                /\ WordBoundary(line, p + Len(kw) + k + Len(name))

(***************************************************************************)
(* Header search: first match in search_range, else first match in the     *)
(* whole file, else None.  Indices are 0-based as in the code.             *)
(***************************************************************************)
\* variant: the window reaches one line further back
search_range_wide(n, start_idx) ==
    Max(0, start_idx - 6) .. (Min(n, start_idx + 10) - 1)

\* variant: the upper end is not clipped to the file, start_idx + 10
search_range_unclipped(n, start_idx) ==
    Max(0, start_idx - 5) .. (start_idx + 10 - 1)

\* variant: the window reaches one line further down
search_range_long(n, start_idx) ==
    Max(0, start_idx - 5) .. (Min(n, start_idx + 11) - 1)

search_range(n, start_idx) == Max(0, start_idx - 5) .. (Min(n, start_idx + 10) - 1)

FirstMatch(lines, range, name) ==
    LET hits == {i \in range : header_pat(lines[i + 1], name)}
    IN  IF hits = {} THEN None ELSE CHOOSE i \in hits : \A j \in hits : i <= j

near_search(lines, start_idx, name) ==
    FirstMatch(lines, search_range(Len(lines), start_idx), name)

header_search(lines, start_idx, name) ==
    LET near == near_search(lines, start_idx, name)
    IN  IF near # None THEN near
        ELSE FirstMatch(lines, 0..(Len(lines) - 1), name)

(***************************************************************************)
(* Brace matching from the header line on.  ScanLine walks the characters  *)
(* of one line from position j and yields depth, opened and whether the    *)
(* closing brace of the block was met on this line.                        *)
(***************************************************************************)
RECURSIVE ScanLine(_, _, _, _)
\* variant: depth is not allowed to go below zero
ScanLine_clamped(line, j, depth, opened) ==
    LET sub == SubSeq(line, j, Len(line))
        step(d, ch) == IF ch = "{" THEN d + 1
                       ELSE IF ch = "}" THEN Max(0, d - 1) ELSE d
        F[k \in 0..Len(sub)] ==
            IF k = 0 THEN [depth |-> depth, opened |-> opened, closed |-> FALSE]
            ELSE IF F[k - 1].closed THEN F[k - 1]
            ELSE [depth |-> step(F[k - 1].depth, sub[k]),
                  opened |-> F[k - 1].opened \/ sub[k] = "{",
                  closed |-> sub[k] = "}" /\ F[k - 1].opened
                             /\ F[k - 1].depth - 1 = 0]
    IN  F[Len(sub)]

ScanLine(line, j, depth, opened) ==
    IF j > Len(line) THEN [depth |-> depth, opened |-> opened, closed |-> FALSE]
    ELSE IF line[j] = "{" THEN ScanLine(line, j + 1, depth + 1, TRUE)
    ELSE IF line[j] = "}" THEN
        IF opened /\ depth - 1 = 0
        THEN [depth |-> depth - 1, opened |-> opened, closed |-> TRUE]
        ELSE ScanLine(line, j + 1, depth - 1, opened)
    ELSE ScanLine(line, j + 1, depth, opened)

RECURSIVE ScanFrom(_, _, _, _)
ScanFrom(lines, idx, depth, opened) ==
    IF idx >= Len(lines) THEN None
    ELSE LET s == ScanLine(lines[idx + 1], 1, depth, opened)
         IN  IF s.closed THEN idx
             ELSE ScanFrom(lines, idx + 1, s.depth, s.opened)

\* variant: the scan starts on the line after the header
brace_match_skip(lines, header_idx) == ScanFrom(lines, header_idx + 1, 0, FALSE)

brace_match(lines, header_idx) == ScanFrom(lines, header_idx, 0, FALSE)

(***************************************************************************)
(* Enforce loc_limit on the exact block.                                   *)
(***************************************************************************)
\* variant: the cap is not applied
enforce_limit_none(excerpt_lines, limit) == excerpt_lines

\* variant: the cap keeps the last lines, excerpt_lines[-loc_limit:]
enforce_limit_tail(excerpt_lines, limit) ==
    IF Len(excerpt_lines) > limit
    THEN SubSeq(excerpt_lines, Len(excerpt_lines) - limit + 1, Len(excerpt_lines))
    ELSE excerpt_lines

\* variant: the cap keeps the first lines and the closing line
enforce_limit_ends(excerpt_lines, limit) ==
    IF Len(excerpt_lines) > limit
    THEN Slice(excerpt_lines, 0, limit - 1)
         \o <<excerpt_lines[Len(excerpt_lines)]>>
    ELSE excerpt_lines

enforce_limit(excerpt_lines, limit) ==
    IF Len(excerpt_lines) > limit THEN Slice(excerpt_lines, 0, limit)
    ELSE excerpt_lines

(***************************************************************************)
(* The four returns of extract_class_block.  Each yields the joined        *)
(* excerpt together with the locals that decided it: outcome names the     *)
(* return statement taken ("A" line 52, "B" line 79, "C" line 107, "D"     *)
(* line 117), header_idx and end_idx are the locals of the same name, and  *)
(* near says whether the first loop (lines 63-66) set header_idx.          *)
(***************************************************************************)
Ret(outcome, header_idx, near, end_idx, excerpt_lines) ==
    [outcome |-> outcome, header_idx |-> header_idx, near |-> near,
     end_idx |-> end_idx, excerpt_lines |-> excerpt_lines,
     excerpt |-> join(excerpt_lines)]

\* variant: only the lower end of the range is checked
out_of_range_low(line_no, n) == line_no < 1

out_of_range(line_no, n) == line_no < 1 \/ line_no > n

\* variant: the window is one line short, lines[:loc_limit - 1]
out_of_range_window_short(lines, limit) == Slice(lines, 0, limit - 1)

out_of_range_window(lines, limit) == Slice(lines, 0, limit)

\* variant: the window starts at the reported line, lo = start_idx
no_header_window_at(lines, start_idx, limit) ==
    Slice(lines, start_idx, Min(Len(lines), start_idx + limit))

no_header_window(lines, start_idx, limit) ==
    LET lo == Max(0, start_idx - 5)
        hi == Min(Len(lines), lo + limit)
    IN  Slice(lines, lo, hi)

\* variant: the window starts five lines before the header
no_end_window_back(lines, header_idx, limit) ==
    LET lo == Max(0, header_idx - 5)
    IN  Slice(lines, lo, Min(Len(lines), lo + limit))

no_end_window(lines, header_idx, limit) ==
    LET lo == Max(0, header_idx)
        hi == Min(Len(lines), lo + limit)
    IN  Slice(lines, lo, hi)

\* variant: the end line is left out, hi = end_idx
exact_block_open(lines, header_idx, end_idx, limit) ==
    enforce_limit(Slice(lines, Max(0, header_idx), end_idx), limit)

exact_block(lines, header_idx, end_idx, limit) ==
    LET lo == Max(0, header_idx)
        hi == end_idx + 1
    IN  enforce_limit(Slice(lines, lo, hi), limit)

\* variant: lines is a module-level list that still holds the lines of the
\* previous call when the new ones are added
extract_class_block_cached(t, line_no, name, limit) ==
    LET lines == IF calls = <<>> THEN splitlines(t)
                 ELSE splitlines(calls[Len(calls)].text) \o splitlines(t)
        n == Len(lines)
    IN  IF out_of_range(line_no, n)
        THEN Ret("A", None, FALSE, None, out_of_range_window(lines, limit))
        ELSE
        LET start_idx == line_no - 1
            header_idx == header_search(lines, start_idx, simple_name(name))
            near == near_search(lines, start_idx, simple_name(name)) # None
        IN  IF header_idx = None
            THEN Ret("B", None, FALSE, None,
                     no_header_window(lines, start_idx, limit))
            ELSE
            LET end_idx == brace_match(lines, header_idx)
            IN  IF end_idx = None
                THEN Ret("C", header_idx, near, None,
                         no_end_window(lines, header_idx, limit))
                ELSE Ret("D", header_idx, near, end_idx,
                         exact_block(lines, header_idx, end_idx, limit))

extract_class_block(t, line_no, name, limit) ==
    LET lines == splitlines(t)
        n == Len(lines)
    IN  IF out_of_range(line_no, n)
        THEN Ret("A", None, FALSE, None, out_of_range_window(lines, limit))
        ELSE
        LET start_idx == line_no - 1
            header_idx == header_search(lines, start_idx, simple_name(name))
            near == near_search(lines, start_idx, simple_name(name)) # None
        IN  IF header_idx = None
            THEN Ret("B", None, FALSE, None,
                     no_header_window(lines, start_idx, limit))
            ELSE
            LET end_idx == brace_match(lines, header_idx)
            IN  IF end_idx = None
                THEN Ret("C", header_idx, near, None,
                         no_end_window(lines, header_idx, limit))
                ELSE Ret("D", header_idx, near, end_idx,
                         exact_block(lines, header_idx, end_idx, limit))

(***************************************************************************)
(* Inputs of the call.  A text is head lines, then padding lines, then     *)
(* tail lines, joined by "\n", with or without a final "\n".  The lines    *)
(* are Java-like: a blank line, a class header that opens a block, a       *)
(* closing brace, a one-line enum, a header preceded by a closing brace;   *)
(* the padding line declares a type whose name only starts like "A".       *)
(***************************************************************************)
MaxPad == 6
MaxTail == 2
MaxLimit == 2
Overshoot == 1

KwClass == <<"c","l","a","s","s">>
KwEnum == <<"e","n","u","m">>

LineBlank == <<>>
LineClassA == KwClass \o <<" ","A"," ","{">>
LineClose == <<"}">>
LineEnumB == KwEnum \o <<" ","B"," ","{","}">>
LineCloseClassA == <<"}"," ">> \o KwClass \o <<" ","A","{">>
LinePad == KwClass \o <<" ","A","B",";">>

Corpus == {LineBlank, LineClassA, LineClose, LineEnumB, LineCloseClassA}

TypeNames == { <<"A">>, <<"B">>, <<"B",".","A">> }

SeqsUpTo(S, k) == UNION {[1..m -> S] : m \in 0..k}

Heads == { <<>>, <<LineClassA>>, <<LineEnumB>> }

Pad(a) == [i \in 1..a |-> LinePad]

\* the text whose lines are ls; nl says whether the last line is terminated
TextOf(ls, nl) == IF nl THEN join(ls) \o <<NL>> ELSE join(ls)

Texts ==
    { TextOf(h \o Pad(a) \o tl, nl) :
        h \in Heads, a \in 0..MaxPad,
        tl \in SeqsUpTo(Corpus, MaxTail), nl \in BOOLEAN }

LineNumbers(t) == (1 - Overshoot) .. (Len(splitlines(t)) + Overshoot)

(***************************************************************************)
(* One call of extract_class_block: Init draws the arguments, Call runs    *)
(* the function to its return.                                             *)
(***************************************************************************)
NoRow ==
    [case_id |-> 0, has_line_no |-> FALSE, line_no |-> <<>>,
     outer_class |-> "", class_name |-> <<>>]

\* the locals before the call has started
NoFrame ==
    [lines |-> <<>>, i |-> 0, header_idx |-> None, near |-> FALSE,
     depth |-> 0, opened |-> FALSE, steps |-> 0]

\* no runner is started
NoRun ==
    [status |-> "idle", n_cases |-> 0, prior |-> <<>>, case |-> 0, key |-> 0,
     record |-> <<>>, out |-> <<>>, requests |-> <<>>, error |-> "none"]

NoResult ==
    [outcome |-> "none", header_idx |-> None, near |-> FALSE,
     end_idx |-> None, excerpt_lines |-> <<>>, excerpt |-> <<>>]

Init ==
    /\ text \in Texts
    /\ start_line \in LineNumbers(text)
    /\ class_name \in TypeNames
    /\ loc_limit \in 1..MaxLimit
    /\ pc = "call"
    /\ result = NoResult
    /\ row = NoRow
    /\ n_read = 0
    /\ fout = <<>>
    /\ calls = <<>>
    /\ n_written = 0
    /\ status = "idle"
    /\ frame = NoFrame
    /\ run = NoRun

Call ==
    /\ pc = "call"
    /\ result' = extract_class_block(text, start_line, class_name, loc_limit)
    /\ pc' = "returned"
    /\ UNCHANGED <<text, start_line, class_name, loc_limit, frame>>
    /\ UNCHANGED mainVars

Next == Call

Spec == Init /\ [][Next]_vars

(***************************************************************************)
(* The same call on long files: up to two declarations of A separated and  *)
(* surrounded by padding lines, so that a declaration can lie on either    *)
(* side of the search window of lines 62-66, at any distance.              *)
(***************************************************************************)
MaxGap == 16
MaxEdge == 1

Slots == { <<>>, <<LineClassA>> }

WideTexts ==
    { TextOf(Pad(a) \o h1 \o Pad(b) \o h2 \o Pad(c), TRUE) :
        a \in 0..MaxEdge, h1 \in Slots, b \in 0..MaxGap, h2 \in Slots,
        c \in 0..MaxEdge }

InitWide ==
    /\ text \in WideTexts
    /\ start_line \in 1..Len(splitlines(text))
    /\ class_name = <<"A">>
    /\ loc_limit \in 1..MaxLimit
    /\ pc = "call"
    /\ result = NoResult
    /\ row = NoRow
    /\ n_read = 0
    /\ fout = <<>>
    /\ calls = <<>>
    /\ n_written = 0
    /\ status = "idle"
    /\ frame = NoFrame
    /\ run = NoRun

SpecWide == InitWide /\ [][Next]_vars

(***************************************************************************)
(* The same call run loop iteration by loop iteration.  frame holds the    *)
(* locals: lines is the split text (line 49), i is the index of the loop   *)
(* that is running (lines 63, 70, 89), header_idx, depth and opened are    *)
(* the locals of the same name, steps                                      *)
(* counts the loop iterations and returns executed so far.  pc is          *)
(* "near" in the loop of lines 63-66, "file" in the loop of lines 70-73,   *)
(* "brace" in the loop of lines 89-101, "returned" after a return and      *)
(* "raised" when lines[i] is read with i >= len(lines) (IndexError).       *)
(***************************************************************************)
StepPad == 1
StepTail == 2

StepCorpus == {LineClassA, LineClose, LineCloseClassA}

StepTexts ==
    { TextOf(h \o Pad(a) \o tl, FALSE) :
        h \in Heads, a \in 0..StepPad, tl \in SeqsUpTo(StepCorpus, StepTail) }

InitSteps ==
    /\ text \in StepTexts
    /\ start_line \in LineNumbers(text)
    /\ class_name \in { <<"A">>, <<"B">> }
    /\ loc_limit \in 1..MaxLimit
    /\ pc = "call"
    /\ result = NoResult
    /\ row = NoRow
    /\ n_read = 0
    /\ fout = <<>>
    /\ calls = <<>>
    /\ n_written = 0
    /\ status = "idle"
    /\ frame = NoFrame
    /\ run = NoRun

StepFixed == <<text, start_line, class_name, loc_limit>>

\* lines 49-52
StepReturnA ==
    /\ pc = "call"
    /\ LET lines == splitlines(text)
       IN  /\ out_of_range(start_line, Len(lines))
           /\ result' = Ret("A", None, FALSE, None,
                            out_of_range_window(lines, loc_limit))
           /\ frame' = [frame EXCEPT !.lines = lines, !.steps = @ + 1]
    /\ pc' = "returned"
    /\ UNCHANGED <<StepFixed, mainVars>>

\* lines 49-62: the first loop starts at the low end of search_range
StepStartSearch ==
    /\ pc = "call"
    /\ LET lines == splitlines(text)
       IN  /\ ~out_of_range(start_line, Len(lines))
           /\ frame' = [frame EXCEPT !.lines = lines,
                                     !.i = Max(0, start_line - 1 - 5),
                                     !.steps = @ + 1]
    /\ pc' = "near"
    /\ UNCHANGED <<StepFixed, result, mainVars>>

\* lines 63-66: one iteration of the loop over search_range
StepNear ==
    /\ pc = "near"
    /\ frame.i \in search_range(Len(frame.lines), start_line - 1)
    /\ IF frame.i >= Len(frame.lines)
       THEN /\ pc' = "raised"
            /\ frame' = [frame EXCEPT !.steps = @ + 1]
       ELSE IF header_pat(frame.lines[frame.i + 1], simple_name(class_name))
       THEN /\ pc' = "brace"
            /\ frame' = [frame EXCEPT !.header_idx = frame.i,
                                      !.near = TRUE,
                                      !.steps = @ + 1]
       ELSE /\ pc' = "near"
            /\ frame' = [frame EXCEPT !.i = frame.i + 1,
                                      !.steps = @ + 1]
    /\ UNCHANGED <<StepFixed, result, mainVars>>

\* lines 68-70: the first loop ended without a match
StepNearDone ==
    /\ pc = "near"
    /\ frame.i \notin search_range(Len(frame.lines), start_line - 1)
    /\ pc' = "file"
    /\ frame' = [frame EXCEPT !.i = 0, !.steps = @ + 1]
    /\ UNCHANGED <<StepFixed, result, mainVars>>

\* lines 70-73: one iteration of the loop over the whole file
StepFile ==
    /\ pc = "file"
    /\ frame.i < Len(frame.lines)
    /\ IF header_pat(frame.lines[frame.i + 1], simple_name(class_name))
       THEN /\ pc' = "brace"
            /\ frame' = [frame EXCEPT !.header_idx = frame.i,
                                      !.steps = @ + 1]
       ELSE /\ pc' = "file"
            /\ frame' = [frame EXCEPT !.i = frame.i + 1,
                                      !.steps = @ + 1]
    /\ UNCHANGED <<StepFixed, result, mainVars>>

\* lines 75-79
StepReturnB ==
    /\ pc = "file"
    /\ frame.i >= Len(frame.lines)
    /\ result' = Ret("B", None, FALSE, None,
                     no_header_window(frame.lines, start_line - 1, loc_limit))
    /\ pc' = "returned"
    /\ frame' = [frame EXCEPT !.steps = @ + 1]
    /\ UNCHANGED <<StepFixed, mainVars>>

\* lines 89-101 and 109-117: one line of the brace scan; the scan starts
\* at i = header_idx
StepBrace ==
    /\ pc = "brace"
    /\ frame.i < Len(frame.lines)
    /\ LET s == ScanLine(frame.lines[frame.i + 1], 1, frame.depth,
                         frame.opened)
       IN  IF s.closed
           THEN /\ result' = Ret("D", frame.header_idx, frame.near, frame.i,
                                 exact_block(frame.lines, frame.header_idx,
                                             frame.i, loc_limit))
                /\ pc' = "returned"
                /\ frame' = [frame EXCEPT !.steps = @ + 1]
           ELSE /\ frame' = [frame EXCEPT !.i = frame.i + 1,
                                          !.depth = s.depth,
                                          !.opened = s.opened,
                                          !.steps = @ + 1]
                /\ UNCHANGED <<pc, result>>
    /\ UNCHANGED <<StepFixed, mainVars>>

\* lines 103-107
StepReturnC ==
    /\ pc = "brace"
    /\ frame.i >= Len(frame.lines)
    /\ result' = Ret("C", frame.header_idx, frame.near, None,
                     no_end_window(frame.lines, frame.header_idx, loc_limit))
    /\ pc' = "returned"
    /\ frame' = [frame EXCEPT !.steps = @ + 1]
    /\ UNCHANGED <<StepFixed, mainVars>>

NextSteps ==
    \/ StepReturnA \/ StepStartSearch \/ StepNear \/ StepNearDone
    \/ StepFile \/ StepReturnB \/ StepBrace \/ StepReturnC

SpecSteps == InitSteps /\ [][NextSteps]_vars

(***************************************************************************)
(* The batch loop of main.  A row of smells.csv is modelled by the columns *)
(* the loop reads: case_id, "Line no" (has_line_no says whether the column *)
(* exists, line_no is str(r["Line no"])), outer_class (with package it     *)
(* names the file) and class_name.                                         *)
(***************************************************************************)
MaxRows == 3

DecimalDigits == {"0","1","2","3","4","5","6","7","8","9"}

\* one character that str.isdigit() accepts and int() rejects (U+00B2)
SuperscriptTwo == "^2"

\* str.isdigit(): non-empty and every character is a digit character
isdigit(str) ==
    /\ str # <<>>
    /\ \A k \in 1..Len(str) : str[k] \in DecimalDigits \cup {SuperscriptTwo}

\* int(str) raises ValueError unless every character is a decimal digit
int_raises(str) == \E k \in 1..Len(str) : str[k] \notin DecimalDigits

DigitValue(c) ==
    CASE c = "0" -> 0 [] c = "1" -> 1 [] c = "2" -> 2 [] c = "3" -> 3
      [] c = "4" -> 4 [] c = "5" -> 5 [] c = "6" -> 6 [] c = "7" -> 7
      [] c = "8" -> 8 [] c = "9" -> 9

RECURSIVE int(_)
int(str) ==
    IF str = <<>> THEN 0
    ELSE 10 * int(SubSeq(str, 1, Len(str) - 1)) + DigitValue(str[Len(str)])

\* variant: line numbers below 1 are skipped as well
line_no_ok_positive(r) ==
    r.has_line_no /\ isdigit(r.line_no) /\ r.line_no # <<"0">>

\* line 141 negated: the row is not skipped for its line number
line_no_ok(r) == r.has_line_no /\ isdigit(r.line_no)

\* the repository: the files rglob can find, by outer class, and their text
Repo ==
    [f \in {"Closed", "Open", "Other"} |->
        CASE f = "Closed" -> TextOf(<<LineClassA, LineClose>>, TRUE)
          [] f = "Open" -> TextOf(<<LineClassA>>, TRUE)
          [] f = "Other" -> TextOf(<<LineEnumB, LineBlank>>, TRUE)]

NoPath == ""

find_java_file(outer_class) ==
    IF outer_class \in DOMAIN Repo THEN outer_class ELSE NoPath

read_text(path) == Repo[path]

\* variant: the tag of the legacy builder
excerpt_strategy_legacy == "heuristic_by_smell"

\* the literal written to every record (line 173)
excerpt_strategy == "line_based_class_block"

LineNoCells ==
    { [has |-> FALSE, str |-> <<>>],
      [has |-> TRUE, str |-> <<"n","a","n">>],
      [has |-> TRUE, str |-> <<"-","1">>],
      [has |-> TRUE, str |-> <<"0">>],
      [has |-> TRUE, str |-> <<"2">>],
      [has |-> TRUE, str |-> <<"9">>],
      [has |-> TRUE, str |-> <<SuperscriptTwo>>] }

Rows(id) ==
    { [case_id |-> id, has_line_no |-> c.has, line_no |-> c.str,
       outer_class |-> f, class_name |-> <<"A">>] :
        c \in LineNoCells, f \in {"Closed", "Open", "Other", "Gone"} }

InitMain ==
    /\ text = <<>>
    /\ start_line = 0
    /\ class_name = <<>>
    /\ loc_limit \in 1..MaxLimit
    /\ pc = "main"
    /\ result = NoResult
    /\ row = NoRow
    /\ n_read = 0
    /\ fout = <<>>
    /\ calls = <<>>
    /\ n_written = 0
    /\ status = "loop"
    /\ frame = NoFrame
    /\ run = NoRun

\* the loop takes the next row of the frame
Takes(r) ==
    /\ status = "loop"
    /\ n_read < MaxRows
    /\ r \in Rows(n_read + 1)
    /\ row' = r
    /\ n_read' = n_read + 1
    /\ UNCHANGED run

\* lines 141-142: continue
SkipLineNo ==
    \E r \in Rows(n_read + 1) :
        /\ Takes(r)
        /\ ~line_no_ok(r)
        /\ UNCHANGED <<fout, calls, n_written, status>>
        /\ UNCHANGED <<loc_limit, callVars>>

\* line 144: int() raises and the exception leaves main
IntError ==
    \E r \in Rows(n_read + 1) :
        /\ Takes(r)
        /\ line_no_ok(r)
        /\ int_raises(r.line_no)
        /\ status' = "error"
        /\ UNCHANGED <<fout, calls, n_written>>
        /\ UNCHANGED <<loc_limit, callVars>>

\* lines 145-147: continue
SkipNoFile ==
    \E r \in Rows(n_read + 1) :
        /\ Takes(r)
        /\ line_no_ok(r)
        /\ ~int_raises(r.line_no)
        /\ find_java_file(r.outer_class) = NoPath
        /\ UNCHANGED <<fout, calls, n_written, status>>
        /\ UNCHANGED <<loc_limit, callVars>>

\* lines 149-177: extract, build the record, write it
WriteCase ==
    \E r \in Rows(n_read + 1) :
        /\ Takes(r)
        /\ line_no_ok(r)
        /\ ~int_raises(r.line_no)
        /\ find_java_file(r.outer_class) # NoPath
        /\ LET java_path == find_java_file(r.outer_class)
               code == read_text(java_path)
               line == int(r.line_no)
               res == extract_class_block(code, line, r.class_name, loc_limit)
           IN  /\ fout' = Append(fout,
                      [case_id |-> r.case_id, file_path |-> java_path,
                       class_name |-> r.class_name,
                       code_excerpt |-> res.excerpt,
                       excerpt_strategy |-> excerpt_strategy])
               /\ calls' = Append(calls,
                      [text |-> code, start_line |-> line,
                       class_name |-> r.class_name, loc_limit |-> loc_limit,
                       result |-> res])
        /\ n_written' = n_written + 1
        /\ UNCHANGED status
        /\ UNCHANGED <<loc_limit, callVars>>

\* the frame has no more rows: line 179
Finish ==
    /\ status = "loop"
    /\ status' = "done"
    /\ UNCHANGED <<row, n_read, fout, calls, n_written, run>>
    /\ UNCHANGED <<loc_limit, callVars>>

NextMain == SkipLineNo \/ IntError \/ SkipNoFile \/ WriteCase \/ Finish

SpecMain == InitMain /\ [][NextMain]_vars

(***************************************************************************)
(* The batch runners 05_run_llm_ollama.py, 05_run_llm_vllm.py and          *)
(* 05_run_llm_llamacpp.py: the three main loops have the same shape and    *)
(* differ in the fields of the record and in the backend called.  run      *)
(* holds the state of one run: n_cases is the number of lines of the cases *)
(* file, prior is what the output file held when it was opened for         *)
(* appending, out is what it holds now, case is the number of the case of  *)
(* the running iteration, key is the position in the list of templates,    *)
(* record is the record being built, requests is the log of the requests   *)
(* sent to the backend, error is what ended the run early.                 *)
(***************************************************************************)
MaxCases == 3

Template == "_template"

\* the list the inner loop iterates over, in the order of a runner that
\* validates before it refactors
TemplateKeys_refactor_last ==
    << <<"explain", Template>>, <<"meta_validation", Template>>,
       <<"refactor", Template>> >>

\* the list the inner loop iterates over
TemplateKeys ==
    << <<"explain", Template>>, <<"refactor", Template>>,
       <<"meta_validation", Template>> >>

\* key.replace("_template", "")
replace_template(key) == SelectSeq(key, LAMBDA t : t # Template)

\* the texts a backend returns
Replies == {"text1", "text2"}

\* a line already in the output file
OldRecord == [case_id |-> 0, fields |-> <<>>]

PriorOutputs == { <<>>, <<OldRecord>> }

InitRun ==
    /\ text = <<>>
    /\ start_line = 0
    /\ class_name = <<>>
    /\ loc_limit = MaxLimit
    /\ pc = "run"
    /\ result = NoResult
    /\ row = NoRow
    /\ n_read = 0
    /\ fout = <<>>
    /\ calls = <<>>
    /\ n_written = 0
    /\ status = "idle"
    /\ frame = NoFrame
    /\ \E n \in 0..MaxCases, prior \in PriorOutputs :
           run = [NoRun EXCEPT !.status = "loop", !.n_cases = n,
                               !.prior = prior, !.out = prior]

runFixed ==
    <<text, start_line, class_name, loc_limit, pc, result, row, n_read,
      fout, calls, n_written, status, frame>>

\* the outer loop takes the next case and starts its record
NextCase ==
    /\ run.status = "loop"
    /\ run.case < run.n_cases
    /\ run' = [run EXCEPT !.status = "case",
                          !.case = @ + 1,
                          !.key = 1,
                          !.record = [case_id |-> run.case + 1,
                                      fields |-> <<>>]]
    /\ UNCHANGED runFixed

\* reading the next case, building vars or formatting the prompt raises:
\* the with block closes the file and the run ends
CaseFails ==
    /\ \/ run.status = "loop" /\ run.case < run.n_cases
       \/ run.status = "case" /\ run.key <= Len(TemplateKeys)
    /\ run' = [run EXCEPT !.status = "error", !.error = "case"]
    /\ UNCHANGED runFixed

\* one iteration of the inner loop: the request returns and its text is
\* stored in the record under the key without "_template"
Generate ==
    /\ run.status = "case"
    /\ run.key <= Len(TemplateKeys)
    /\ \E reply \in Replies :
           run' = [run EXCEPT
                     !.requests = Append(@, <<run.case,
                                              TemplateKeys[run.key]>>),
                     !.record = [@ EXCEPT !.fields =
                         Append(@, [name |-> replace_template(
                                                 TemplateKeys[run.key]),
                                    text |-> reply])],
                     !.key = @ + 1]
    /\ UNCHANGED runFixed

\* the request raises (raise_for_status, a timeout, a reply without the
\* expected fields): the with block closes the file and the run ends
RequestFails ==
    /\ run.status = "case"
    /\ run.key <= Len(TemplateKeys)
    /\ run' = [run EXCEPT
                 !.requests = Append(@, <<run.case, TemplateKeys[run.key]>>),
                 !.status = "error",
                 !.error = "request"]
    /\ UNCHANGED runFixed

\* after the inner loop the record is written as one line
WriteRecord ==
    /\ run.status = "case"
    /\ run.key > Len(TemplateKeys)
    /\ run' = [run EXCEPT !.out = Append(@, run.record), !.status = "loop"]
    /\ UNCHANGED runFixed

\* the cases are exhausted and the file is closed
FinishRun ==
    /\ run.status = "loop"
    /\ run.case = run.n_cases
    /\ run' = [run EXCEPT !.status = "done"]
    /\ UNCHANGED runFixed

NextRun ==
    NextCase \/ CaseFails \/ Generate \/ RequestFails \/ WriteRecord
        \/ FinishRun

SpecRun == InitRun /\ [][NextRun]_vars

(***************************************************************************)
(* Properties of one call.                                                 *)
(***************************************************************************)
Returned == pc = "returned"

Lines == splitlines(text)

\* number of lines of a joined excerpt
LineCount(e) ==
    IF e = <<>> THEN 0 ELSE 1 + Cardinality({i \in 1..Len(e) : e[i] = NL})

BlockLen == result.end_idx - result.header_idx + 1

\* C1: whichever return produced it, the excerpt has at most max_lines
\* (loc_limit) lines.
C1_Bounded == Returned => LineCount(result.excerpt) <= loc_limit

C1_Witness ==
    /\ Returned /\ result.outcome = "D"
    /\ BlockLen > loc_limit
    /\ LineCount(result.excerpt) = loc_limit

\* C2 as stated: for a non-empty text the excerpt is never the empty string.
C2_NonEmptyString == (Returned /\ text # <<>>) => result.excerpt # <<>>

\* C2 amended: for a non-empty text the excerpt is the join of at least one
\* line of the file, and it is the empty string only when that selection is
\* a single blank line.
C2_AtLeastOneLine ==
    (Returned /\ text # <<>>) =>
        /\ Len(result.excerpt_lines) >= 1
        /\ (result.excerpt = <<>>) <=> (result.excerpt_lines = <<LineBlank>>)

C2_Witness ==
    /\ Returned /\ text = <<NL>>
    /\ result.excerpt_lines = <<LineBlank>>
    /\ result.excerpt = <<>>

\* C3: when a header was found (returns C and D) the first line of the
\* excerpt is the header line, truncated or not.
C3_HeaderFirst ==
    (Returned /\ result.outcome \in {"C", "D"}) =>
        /\ splitlines(result.excerpt) # <<>>
        /\ splitlines(result.excerpt)[1] = Lines[result.header_idx + 1]

C3_Witness ==
    /\ Returned /\ result.outcome = "D"
    /\ result.header_idx > 0
    /\ BlockLen > loc_limit
    /\ splitlines(result.excerpt)[1] = LineClassA

C5_OutOfRange ==
    (Returned /\ (start_line < 1 \/ start_line > Len(Lines))) =>
        /\ result.outcome = "A"
        /\ result.header_idx = None
        /\ result.excerpt = join(SubSeq(Lines, 1, Min(loc_limit, Len(Lines))))

C5_Witness ==
    /\ Returned /\ start_line > Len(Lines)
    /\ result.outcome = "A"
    /\ \E i \in 1..Len(Lines) : header_pat(Lines[i], <<"A">>)
    /\ class_name = <<"A">>
    /\ Len(Lines) > loc_limit

\* C6: an exact match returns lines h..e when there are at most max_lines
\* of them and otherwise the first max_lines of them.
C6_ExactBlock ==
    (Returned /\ result.outcome = "D") =>
        result.excerpt =
            join(SubSeq(Lines, result.header_idx + 1,
                        IF BlockLen <= loc_limit THEN result.end_idx + 1
                        ELSE result.header_idx + loc_limit))

C6_Witness ==
    /\ Returned /\ result.outcome = "D"
    /\ BlockLen = loc_limit + 1
    /\ result.excerpt_lines[Len(result.excerpt_lines)] # LineClose

\* C9: for the qualified name B.A only the last segment A is matched: the
\* call behaves as for the name A, and the header is a declaration of A,
\* never the line that declares B.
QualifiedName == <<"B", ".", "A">>

C9_LastSegment ==
    (Returned /\ class_name = QualifiedName) =>
        /\ result = extract_class_block(text, start_line, <<"A">>, loc_limit)
        /\ result.header_idx # None =>
              /\ header_pat(Lines[result.header_idx + 1], <<"A">>)
              /\ Lines[result.header_idx + 1] # LineEnumB

C9_Witness ==
    /\ Returned /\ class_name = QualifiedName
    /\ result.near
    /\ \E i \in search_range(Len(Lines), start_line - 1) :
          i < result.header_idx /\ Lines[i + 1] = LineEnumB

(***************************************************************************)
(* Properties of the batch loop.                                           *)
(***************************************************************************)
Written == 1..Len(fout)

\* C7 as stated: records whose excerpts came from different returns of the
\* extractor never carry the same excerpt_strategy.
C7_TagPerOutcome ==
    \A i \in Written : \A j \in Written :
        calls[i].result.outcome # calls[j].result.outcome
            => fout[i].excerpt_strategy # fout[j].excerpt_strategy

\* C7 amended: every output record carries the same excerpt_strategy,
\* line_based_class_block, whichever return produced its excerpt.
C7_ConstantTag ==
    \A i \in Written : fout[i].excerpt_strategy = "line_based_class_block"

C7_Witness ==
    \E i \in Written : \E j \in Written :
        /\ calls[i].result.outcome = "A"
        /\ calls[j].result.outcome = "D"
        /\ fout[i].excerpt_strategy = fout[j].excerpt_strategy

Located(r) == r.outer_class \in DOMAIN Repo

DecimalLineNo(r) ==
    /\ r.has_line_no
    /\ r.line_no # <<>>
    /\ \A k \in 1..Len(r.line_no) : r.line_no[k] \in DecimalDigits

WritesRecordFor(r) ==
    /\ Len(fout') = Len(fout) + 1
    /\ SubSeq(fout', 1, Len(fout)) = fout
    /\ fout'[Len(fout')].case_id = r.case_id
    /\ status' = "loop"

SameArgs(c, d) ==
    /\ c.text = d.text
    /\ c.start_line = d.start_line
    /\ c.class_name = d.class_name
    /\ c.loc_limit = d.loc_limit

InRange == LET n == Len(Lines) IN start_line >= 1 /\ start_line <= n

Anchor == start_line - 1

\* the 0-based indices of the lines of ls that declare the simple name
MatchesOf(ls, name) == {i \in 0..(Len(ls) - 1) : header_pat(ls[i + 1], name)}

MatchesOfA(ls) == MatchesOf(ls, <<"A">>)

InWindow(S) == {i \in S : i >= Anchor - 5 /\ i < Anchor + 10}

Least(S) == CHOOSE i \in S : \A j \in S : i <= j

\* C12: for an in-range reported line the header is the smallest matching
\* index of the local window [max(0, anchor-5), min(line_count, anchor+10))
\* when the window holds a match, else the smallest matching index of the
\* file, and it is not found only when no line matches.
C12_HeaderChoice ==
    (Returned /\ InRange /\ class_name = <<"A">>) =>
        LET all == MatchesOfA(Lines)
            win == InWindow(all)
        IN  /\ win # {} => result.header_idx = Least(win)
            /\ (win = {} /\ all # {}) => result.header_idx = Least(all)
            /\ (result.header_idx = None) <=> (all = {})

C12_Witness ==
    /\ Returned /\ class_name = <<"A">>
    /\ result.header_idx = Anchor + 9
    /\ result.header_idx > 15
    /\ header_pat(Lines[1], <<"A">>) \/ header_pat(Lines[2], <<"A">>)

\* number of occurrences of ch among the first c characters of line
Count(line, c, ch) == Cardinality({k \in 1..c : line[k] = ch})

\* occurrences of ch on the lines h .. l-1 of ls (0-based)
RECURSIVE CountLines(_, _, _, _)
CountLines(ls, h, l, ch) ==
    IF l <= h THEN 0
    ELSE CountLines(ls, h, l - 1, ch) + Count(ls[l], Len(ls[l]), ch)

\* "{" and "}" counted from the first character of line h through
\* character c of line l
OpensTo(ls, h, l, c) == CountLines(ls, h, l, "{") + Count(ls[l + 1], c, "{")
ClosesTo(ls, h, l, c) == CountLines(ls, h, l, "}") + Count(ls[l + 1], c, "}")

\* character c of line l is a "}" that brings the depth to 0 after a "{"
ClosingAt(ls, h, l, c) ==
    /\ ls[l + 1][c] = "}"
    /\ OpensTo(ls, h, l, c) >= 1
    /\ OpensTo(ls, h, l, c) = ClosesTo(ls, h, l, c)

ClosingCols(ls, h, l) == {c \in 1..Len(ls[l + 1]) : ClosingAt(ls, h, l, c)}

ClosingLines(ls, h) == {l \in h..(Len(ls) - 1) : ClosingCols(ls, h, l) # {}}

\* C13: the end line is the first line, from the header on, with a "}" that
\* brings the count of "{" minus "}" (taken from the first character of
\* the header line) to 0 after a "{"; what follows that "}" has no
\* influence: the scan of the file cut right after it ends on the same line.
C13_EndLine ==
    (Returned /\ result.outcome = "D") =>
        LET ls == Lines
            h == result.header_idx
            e == result.end_idx
        IN  /\ ClosingLines(ls, h) # {}
            /\ e = Least(ClosingLines(ls, h))
            /\ LET col == Least(ClosingCols(ls, h, e))
                   cut == SubSeq(ls, 1, e) \o <<SubSeq(ls[e + 1], 1, col)>>
               IN  brace_match(cut, h) = e

C13_Witness ==
    /\ Returned /\ result.outcome = "D"
    /\ result.end_idx > result.header_idx
    /\ result.end_idx + 1 < Len(Lines)
    /\ Lines[result.end_idx + 1] = LineCloseClassA

\* some point from the header on at which a "{" has been seen and the
\* depth is 0
BalancedPoint(ls, h) ==
    \E l \in h..(Len(ls) - 1) : \E c \in 1..Len(ls[l + 1]) :
        /\ OpensTo(ls, h, l, c) >= 1
        /\ OpensTo(ls, h, l, c) = ClosesTo(ls, h, l, c)

\* C14 as stated: with a header found, the scan is incomplete exactly when
\* there is no point at or after the first "{" with depth 0.
C14_NoBalancedPoint ==
    (Returned /\ result.outcome \in {"C", "D"}) =>
        ((result.outcome = "C") <=> ~BalancedPoint(Lines, result.header_idx))

\* C14 amended: with a header found, the scan is incomplete exactly when no
\* "}" from the header line on brings the depth to 0: a depth that returns
\* to 0 at a "{" (after a "}" that came first) does not complete the scan.
C14_NoClosingBrace ==
    (Returned /\ result.outcome \in {"C", "D"}) =>
        ((result.outcome = "C") <=> (ClosingLines(Lines, result.header_idx) = {}))

C14_Witness ==
    /\ Returned /\ result.outcome = "C"
    /\ Lines[result.header_idx + 1] = LineCloseClassA
    /\ BalancedPoint(Lines, result.header_idx)
    /\ result.header_idx + 1 < Len(Lines)

\* the simple name of the modelled type names
SimpleOf(name) == IF name = <<"B">> THEN <<"B">> ELSE <<"A">>

\* C15: with the reported line in range and no matching line in the file
\* the excerpt is lines[lo : lo + max_lines], lo = max(0, anchor - 5),
\* clipped at the end of the file, and this return is taken in no other
\* case.
C15_NoHeaderWindow ==
    Returned =>
        LET ls == Lines
            none == InRange /\ MatchesOf(ls, SimpleOf(class_name)) = {}
            lo == IF Anchor - 5 > 0 THEN Anchor - 5 ELSE 0
        IN  /\ none <=> (result.outcome = "B")
            /\ none => result.excerpt =
                  join(SubSeq(ls, lo + 1, Min(Len(ls), lo + loc_limit)))

C15_Witness ==
    /\ Returned /\ result.outcome = "B"
    /\ Anchor = 6 /\ loc_limit = 2
    /\ result.excerpt_lines = <<LinePad, LinePad>>
    /\ Lines[1] = LineEnumB

\* C16: with a header at h and an incomplete scan the excerpt is
\* lines[h : h + max_lines] clipped at the end of the file.
C16_NoEndWindow ==
    (Returned /\ result.outcome = "C") =>
        LET ls == Lines
            h == result.header_idx
        IN  result.excerpt = join(SubSeq(ls, h + 1, Min(Len(ls), h + loc_limit)))

C16_Witness ==
    /\ Returned /\ result.outcome = "C"
    /\ result.header_idx > Anchor
    /\ result.header_idx + 1 = Len(Lines)
    /\ loc_limit = 2
    /\ Len(result.excerpt_lines) = 1

\* C17: in every outcome the excerpt is the join of one contiguous run of
\* the file's lines, in order and unmodified.
C17_Contiguous ==
    Returned =>
        LET ls == Lines
        IN  \E i \in 1..(Len(ls) + 1) : \E j \in (i - 1)..Len(ls) :
                /\ result.excerpt_lines = SubSeq(ls, i, j)
                /\ result.excerpt = join(SubSeq(ls, i, j))

C17_Witness ==
    /\ Returned /\ result.outcome = "D"
    /\ loc_limit = 2 /\ BlockLen = 4
    /\ result.header_idx = 0 /\ Anchor = 2
    /\ result.excerpt_lines = <<LineClassA, LinePad>>

\* C18: outcome, header index and end index do not depend on max_lines, and
\* the excerpt for max_lines m is the first min(m, k) lines of the excerpt
\* for any larger max_lines, k being the line count of the latter.
C18_MonotoneInLimit ==
    Returned =>
        \A m \in loc_limit..(MaxLimit + 1) :
            LET big == extract_class_block(text, start_line, class_name, m)
                k == Len(big.excerpt_lines)
            IN  /\ big.outcome = result.outcome
                /\ big.header_idx = result.header_idx
                /\ big.end_idx = result.end_idx
                /\ result.excerpt_lines =
                      SubSeq(big.excerpt_lines, 1, Min(loc_limit, k))

C18_Witness ==
    /\ Returned /\ result.outcome = "D"
    /\ loc_limit = 1 /\ BlockLen = 3
    /\ result.excerpt_lines = <<LineClassA>>
    /\ extract_class_block(text, start_line, class_name, 3).excerpt_lines
          = <<LineClassA, LinePad, LineClose>>

\* C19: an exact match that is not truncated is balanced up to its closing
\* brace: the last line of the excerpt holds the first "}" at which the
\* count of "{" since the start of the header line equals that of "}".
C19_Balanced ==
    (Returned /\ result.outcome = "D" /\ BlockLen <= loc_limit) =>
        LET xl == result.excerpt_lines
        IN  /\ xl # <<>>
            /\ ClosingLines(xl, 0) # {}
            /\ Least(ClosingLines(xl, 0)) = Len(xl) - 1

C19_Witness ==
    /\ Returned /\ result.outcome = "D"
    /\ BlockLen = 2 /\ loc_limit = 2
    /\ result.excerpt_lines = <<LineClassA, LineCloseClassA>>

(***************************************************************************)
(* Properties of the call run step by step.                                *)
(***************************************************************************)
\* what is left to do at most: the remaining iterations of the running
\* loop and all iterations of the loops after it
Remaining ==
    LET n == IF pc = "call" THEN Len(splitlines(text)) ELSE Len(frame.lines)
    IN  CASE pc = "call" -> 4 * n + 20
          [] pc = "near" -> (2 * n + 3) + (n + 10 - frame.i)
          [] pc = "file" -> (n + 2) + (n - frame.i)
          [] pc = "brace" -> 1 + (n - frame.i)
          [] OTHER -> 0

\* C11: on every text (empty, unbalanced or cut short) the call terminates
\* with exactly one of the returns A, B, C, D taken, never raises, and no
\* loop reads a line past the end of the file: until it has returned it can
\* always take a step, the steps taken plus what is left to do never exceed
\* what was left at the start, and the loop index never exceeds the line
\* count.
C11_Terminates ==
    /\ pc # "raised"
    /\ pc # "call" => (frame.lines = splitlines(text)
                       /\ frame.i <= Len(frame.lines))
    /\ Remaining >= 0
    /\ frame.steps + Remaining <= 4 * Len(splitlines(text)) + 20
    /\ pc # "returned" => ENABLED NextSteps
    /\ (pc = "returned") <=> (result.outcome \in {"A", "B", "C", "D"})
    /\ pc = "returned" =>
           result = extract_class_block(text, start_line, class_name,
                                        loc_limit)

C11_Witness ==
    /\ pc = "returned" /\ result.outcome = "C"
    /\ frame.i = Len(frame.lines)
    /\ frame.depth < 0
    /\ frame.header_idx > 0

(***************************************************************************)
(* Properties of a run of a batch runner.                                  *)
(***************************************************************************)
\* the records appended by this run
Appended == SubSeq(run.out, Len(run.prior) + 1, Len(run.out))

GenerationOrder == <<"explain", "refactor", "meta_validation">>

\* the record of case c with its three generations in the fixed order
CompleteRecord(r, c) ==
    /\ r.case_id = c
    /\ Len(r.fields) = 3
    /\ \A k \in 1..3 : r.fields[k].name = <<GenerationOrder[k]>>

\* the j-th request of the run is the request for generation ((j-1) % 3)+1
\* of case ((j-1) \div 3)+1
RequestsInOrder ==
    \A j \in 1..Len(run.requests) :
        run.requests[j] = << ((j - 1) \div 3) + 1,
                             <<GenerationOrder[((j - 1) % 3) + 1],
                               "_template">> >>

C20_State ==
    /\ RequestsInOrder
    /\ Len(run.out) >= Len(run.prior)
    /\ SubSeq(run.out, 1, Len(run.prior)) = run.prior
    /\ \A c \in 1..Len(Appended) :
           /\ CompleteRecord(Appended[c], c)
           /\ Len(run.requests) >= 3 * c
    /\ Len(Appended) \in {run.case - 1, run.case}
    /\ Len(Appended) = run.case =>
           (run.case = 0 \/ run.status \in {"loop", "done", "error"})
    /\ (run.status = "error" /\ run.error = "request") =>
           /\ Len(Appended) = run.case - 1
           /\ Len(run.requests) \in (3 * (run.case - 1) + 1) .. (3 * run.case)

C20_Step ==
    /\ run.status = "error" => run' = run
    /\ \/ run'.out = run.out
       \/ /\ run'.out = Append(run.out, run'.out[Len(run'.out)])
          /\ run'.requests = run.requests
          /\ Len(run.requests) = 3 * run.case
          /\ CompleteRecord(run'.out[Len(run'.out)], run.case)

\* C20: the requests of a run are, in order, explain, refactor and
\* meta_validation of case 1, then of case 2, and so on; a record is
\* appended only when the three requests of its case have returned; once a
\* request has failed nothing changes any more, so neither the failing case
\* nor a later one gets a record; and every step leaves the lines already in
\* the file, those present before the run included, as they are.
C20_OrderedAllOrNothing == [](C20_State) /\ [][C20_Step]_vars

C20_Witness ==
    /\ run.status = "error" /\ run.error = "request"
    /\ run.case = 2
    /\ Len(run.requests) = 5
    /\ run.prior = <<OldRecord>>
    /\ Len(run.out) = 2

====
